---- MODULE Spec2Model ----
(***************************************************************************)
(* Model of the keploy core: the Core orchestrator (pkg/core/core.go:      *)
(* Setup, getApp, Hook, Run) and the proxy utilities (ReadBytes,           *)
(* ReadBuffConn, PassThrough).                                             *)
(*                                                                         *)
(* Eight specifications share the module:                                 *)
(*   Spec     - Core with concurrent callers of Setup and Hook;            *)
(*   SpecSeq  - the same Core with non-overlapping Hook calls;             *)
(*   SpecRun  - Core with concurrent callers of Setup and Run;             *)
(*   SpecRead - ReadBytes called directly on a reader;                     *)
(*   SpecPass - one PassThrough call with its background ReadBuffConn;     *)
(*   SpecReq  - ReadBytes and ReadRequiredBytes called on a reader;        *)
(*   SpecID   - concurrent callers of GetNextID;                           *)
(*   SpecIP   - the IPv4 address codec applied to 32-bit values.           *)
(***************************************************************************)
EXTENDS Integers, Sequences, FiniteSets, TLC

(* ------------------------------ bounds -------------------------------- *)
\* number of goroutines calling into the Core
NumThreads == 2
\* number of ids the AutoInc hands out before Setup is no longer called
MaxApps == 2
\* number of Hook calls begun in one behaviour
MaxHookCalls == 3
\* number of Run calls made with ServeTest unset
MaxRuns == 1
\* inode values an App may push on the hand-off channel
MaxInode == 2
\* number of reads a reader (or destination connection) serves
MaxReads == 6
\* number of pending request chunks handed to PassThrough
MaxReq == 2

\* largest numBytes argument given to ReadRequiredBytes
MaxNeed == 3
\* number of GetNextID calls made in one behaviour
MaxIDCalls == 6

Threads == 1..NumThreads
AppIDs == 0..(MaxApps - 1)
Inodes == 1..MaxInode

VARIABLES
    \* ---- Core (core.go:15-22) and its collaborators ----
    nextID,        \* Core.id: the AutoInc counter
    created,       \* ids that Setup has returned as (id, nil)
    apps,          \* Core.apps: the ids present in the sync.Map
    proxyStarted,  \* Core.proxyStarted
    startLog,      \* outcomes of the Proxy.StartProxy invocations, in order
    loadFailed,    \* some Hook.Load call has returned an error
    hookCalls,     \* number of Hook calls begun
    hooked,        \* app ids of the Hook calls begun
    pc,            \* per goroutine: position in its Hook call
    tid,           \* per goroutine: the id argument of the call in progress
    stale,         \* per goroutine: proxyStarted was written by another
                   \* goroutine during this Hook call (unordered with its read)
    ret,           \* per goroutine: the last call's result
    runs,          \* per Run call with ServeTest unset: its state
    stRet,         \* result of the last Run call with ServeTest set
    inodeLog,      \* Hook.SendInode invocations: <<run, app id, inode>> in order
    \* ---- the context and the reader ----
    cancelled,     \* ctx.Done() is closed
    nReads,        \* number of reads the reader has served
    \* ---- the ReadBytes call in progress (part_000:78-113) ----
    rbPc,          \* "idle", "select" (loop head), "read", "sleep", "ret"
    buffer,        \* the accumulator: the chunks appended, in order
    emptyReads,    \* the empty-read streak counter
    reads,         \* the (n, err) results of the reads issued by this call
    sleeps,        \* number of 100ms delays taken by this call
    rbRet,         \* what the call returned, and by which exit path
    \* ---- ReadBuffConn, the background reader (part_000:34-52) ----
    gPc,           \* "none", "select", "reading", "sendBuf", "sendErr", "done"
    gOut,          \* the value it is sending
    \* ---- PassThrough (part_000:159-211) ----
    ptPc,          \* "idle", "write", "select", "blocked", "gotBuf", "gotErr",
                   \* "gotCancel" (ctx.Done() taken on reaching the select),
                   \* "wokeCancel" (taken while blocked in it), "done"
    req,           \* requestBuffer
    destWrites,    \* destConn.Write calls: chunk and outcome, in order
    destClosed,    \* number of destConn.Close calls
    ptIn,          \* what the select received from ReadBuffConn
    clientWrites,  \* clientConn.Write calls: buffer and outcome, in order
    ptRet,         \* what the call returned, and by which exit path
    \* ---- the ReadRequiredBytes call in progress (part_000:117-155) ----
    rqPc,          \* "idle", "select" (loop head), "read", "sleep", "ret"
    rqArg,         \* the numBytes argument of the call
    numBytes,      \* the numBytes variable: the remaining target
    rqBuffer,      \* the accumulator: the bytes appended, in order
    rqEmptyReads,  \* the empty-read streak counter
    rqRet,         \* what the call returned, and by which exit path
    \* ---- GetNextID (part_000:26-31) ----
    idCounter,     \* the package variable idCounter
    idPc,          \* per goroutine: "idle" or "called" (inside GetNextID)
    gotIDs,        \* per goroutine: the values its calls returned, in order
    \* ---- the address codec (part_000:214-226, 266-273) ----
    ipIn,          \* the 32-bit value given to ToIP4AddressStr
    ipStr,         \* the text it returned
    ipBack         \* what ToIPV4 returned for the address that text denotes

coreVars == <<nextID, created, apps, proxyStarted, startLog, loadFailed,
              hookCalls, hooked, pc, tid, stale, ret, runs, stRet, inodeLog>>

ioVars == <<cancelled, nReads, rbPc, buffer, emptyReads, reads, sleeps, rbRet,
            gPc, gOut, ptPc, req, destWrites, destClosed, ptIn, clientWrites,
            ptRet>>

\* The state of PassThrough and its background reader, which a ReadBytes
\* step leaves alone.
ptVars == <<gPc, gOut, ptPc, req, destWrites, destClosed, ptIn, clientWrites, ptRet>>

\* The state of the remaining proxy utilities.
rqVars == <<rqPc, rqArg, numBytes, rqBuffer, rqEmptyReads, rqRet>>
idVars == <<idCounter, idPc, gotIDs>>
ipVars == <<ipIn, ipStr, ipBack>>
utilVars == <<rqVars, idVars, ipVars>>

vars == <<coreVars, ioVars, utilVars>>

NoRet == [op |-> "none", err |-> "nil"]

Ret(op, err) == [op |-> op, err |-> err]

(* ------------------------------ Core ---------------------------------- *)

\* core.go:24-30 New: a Core with an empty registry and the gate down.
CoreInit ==
    /\ nextID = 0
    /\ created = {}
    /\ apps = {}
    /\ proxyStarted = FALSE
    /\ startLog = << >>
    /\ loadFailed = FALSE
    /\ hookCalls = 0
    /\ hooked = {}
    /\ pc = [t \in Threads |-> "idle"]
    /\ tid = [t \in Threads |-> 0]
    /\ stale = [t \in Threads |-> FALSE]
    /\ ret = [t \in Threads |-> NoRet]
    /\ runs = << >>
    /\ stRet = NoRet
    /\ inodeLog = << >>

\* utils.AutoInc.Next as used at core.go:33: returns the counter, then
\* increments it, under the AutoInc's own lock.
AutoIncNext == nextID

\* What Core.Setup leaves in the registry (core.go:32-43): the function
\* returns without any c.apps.Store, so the registry is unchanged.
SetupRegistry(id) == apps

\* core.go:32-43 Setup.  The only shared state it touches is the AutoInc,
\* so the call is one step.  ok is the outcome of app.Setup: on success the
\* caller gets (id, nil), on failure (0, err) and the id stays consumed.
Setup(ok) ==
    /\ nextID < MaxApps
    /\ LET id == AutoIncNext IN
        /\ nextID' = nextID + 1
        /\ IF ok
             THEN /\ created' = created \cup {id}
                  /\ apps' = SetupRegistry(id)
             ELSE /\ created' = created
                  /\ apps' = apps
    /\ UNCHANGED <<proxyStarted, startLog, loadFailed, hookCalls, hooked, pc, tid, stale,
                   ret, runs, stRet, inodeLog>>
    /\ UNCHANGED <<ioVars, utilVars>>

\* An insert of a constructed App into Core.apps.  No call site exists in
\* core.go; the registry insert is the one section 3 of the specification
\* describes ("lives in the registry").
StoreApp(id) ==
    /\ id \in created
    /\ id \notin apps
    /\ apps' = apps \cup {id}
    /\ UNCHANGED <<nextID, created, proxyStarted, startLog, loadFailed, hookCalls, hooked,
                   pc, tid, stale, ret, runs, stRet, inodeLog>>
    /\ UNCHANGED <<ioVars, utilVars>>

\* core.go:45-58 getApp: sync.Map.Load, an error when the id is absent.
getApp(id) == id \in apps

\* core.go:60 Hook is entered with an id.
HookBegin(t, id) ==
    /\ pc[t] = "idle"
    /\ hookCalls < MaxHookCalls
    /\ pc' = [pc EXCEPT ![t] = "h_getApp"]
    /\ tid' = [tid EXCEPT ![t] = id]
    /\ hookCalls' = hookCalls + 1
    /\ hooked' = hooked \cup {id}
    /\ UNCHANGED <<nextID, created, apps, proxyStarted, startLog, loadFailed,
                   stale, ret, runs, stRet, inodeLog>>
    /\ UNCHANGED <<ioVars, utilVars>>

\* A Hook call returns err to its caller: its locals are gone.
HookReturn(t, err) ==
    /\ pc' = [pc EXCEPT ![t] = "idle"]
    /\ tid' = [tid EXCEPT ![t] = 0]
    /\ stale' = [stale EXCEPT ![t] = FALSE]
    /\ ret' = [ret EXCEPT ![t] = Ret("Hook", err)]

\* core.go:63-67: resolve the App or return hookErr.
HookGetApp(t) ==
    /\ pc[t] = "h_getApp"
    /\ IF getApp(tid[t])
         THEN /\ pc' = [pc EXCEPT ![t] = "h_load"]
              /\ UNCHANGED <<tid, stale, ret>>
         ELSE HookReturn(t, "hookErr")
    /\ UNCHANGED <<nextID, created, apps, proxyStarted, startLog, loadFailed,
                   hookCalls, hooked, runs, stRet, inodeLog>>
    /\ UNCHANGED <<ioVars, utilVars>>

\* core.go:69-87: a.Kind and a.KeployIPv4Addr only fill the HookCfg handed
\* to hook.Load; ok is Load's outcome.
HookLoad(t, ok) ==
    /\ pc[t] = "h_load"
    /\ IF ok
         THEN /\ pc' = [pc EXCEPT ![t] = "h_check"]
              /\ UNCHANGED <<tid, stale, ret, loadFailed>>
         ELSE /\ HookReturn(t, "hookErr")
              /\ loadFailed' = TRUE
    /\ UNCHANGED <<nextID, created, apps, proxyStarted, startLog, hookCalls,
                   hooked, runs, stRet, inodeLog>>
    /\ UNCHANGED <<ioVars, utilVars>>

\* The gate as a build that dropped the check would read it: always down.
GateAlwaysDown(t) == {FALSE}

\* core.go:89: the plain (unsynchronised) read of c.proxyStarted.  The field
\* is written at core.go:107 with no lock or atomic, so a read that races
\* with a write of another goroutine may observe the value before it.
ReadGate(t) == IF stale[t] THEN {proxyStarted, FALSE} ELSE {proxyStarted}

\* core.go:89-92: if the gate is up, return nil without starting the proxy.
HookCheck(t) ==
    /\ pc[t] = "h_check"
    /\ \E g \in ReadGate(t) :
        IF g
          THEN HookReturn(t, "nil")
          ELSE /\ pc' = [pc EXCEPT ![t] = "h_start"]
               /\ stale' = [stale EXCEPT ![t] = FALSE]
               /\ UNCHANGED <<tid, ret>>
    /\ UNCHANGED <<nextID, created, apps, proxyStarted, startLog, loadFailed,
                   hookCalls, hooked, runs, stRet, inodeLog>>
    /\ UNCHANGED <<ioVars, utilVars>>

\* core.go:98-105: proxy.StartProxy; ok is its outcome.
HookStart(t, ok) ==
    /\ pc[t] = "h_start"
    /\ startLog' = Append(startLog, ok)
    /\ IF ok
         THEN /\ pc' = [pc EXCEPT ![t] = "h_set"]
              /\ UNCHANGED <<tid, stale, ret>>
         ELSE HookReturn(t, "hookErr")
    /\ UNCHANGED <<nextID, created, apps, proxyStarted, loadFailed, hookCalls,
                   hooked, runs, stRet, inodeLog>>
    /\ UNCHANGED <<ioVars, utilVars>>

\* core.go:107: c.proxyStarted = true.
SetGate == TRUE

\* core.go:107-108: c.proxyStarted = true; return nil.  A Hook call of
\* another goroutine that has not read the gate yet now races with this write.
HookSet(t) ==
    /\ pc[t] = "h_set"
    /\ proxyStarted' = SetGate
    /\ stale' = [u \in Threads |->
                   IF u # t /\ pc[u] \in {"h_getApp", "h_load", "h_check"}
                     THEN TRUE ELSE stale[u]]
    /\ pc' = [pc EXCEPT ![t] = "idle"]
    /\ tid' = [tid EXCEPT ![t] = 0]
    /\ ret' = [ret EXCEPT ![t] = Ret("Hook", "nil")]
    /\ UNCHANGED <<nextID, created, apps, startLog, loadFailed, hookCalls,
                   hooked, runs, stRet, inodeLog>>
    /\ UNCHANGED <<ioVars, utilVars>>

(* core.go:111-136 Run.  runs[r] is the state of the r-th call made with   *)
(* ServeTest unset:                                                        *)
(*   cpc    - the caller: "getApp" (at core.go:116), "app" (inside         *)
(*            app.Run, core.go:135), "ret" (returned);                     *)
(*   err    - the AppError returned;                                       *)
(*   gpc    - the forwarding goroutine: "none" (not started), "recv"       *)
(*            (blocked at core.go:128), "send" (about to call SendInode),  *)
(*            "close" (deferred close pending), "done";                    *)
(*   inode  - the value received (0: none yet);                            *)
(*   pushed - the App has pushed its inode on the channel;                 *)
(*   closed - the channel has been closed.                                 *)
NewRun(id) == [id |-> id, cpc |-> "getApp", err |-> "nil", gpc |-> "none",
               inode |-> 0, pushed |-> FALSE, closed |-> FALSE]

\* The result as a build resolving the App before testing ServeTest would
\* give it.
LookupFirst(id) == IF getApp(id) THEN "nil" ELSE "ErrInternal"

\* core.go:112-115: if opts.ServeTest { return models.AppError{} }
ServeTestResult(id) == "nil"

\* core.go:112-115: ServeTest set, return the empty AppError.
RunServeTest(id) ==
    /\ stRet' = Ret("Run", ServeTestResult(id))
    /\ UNCHANGED <<nextID, created, apps, proxyStarted, startLog, loadFailed,
                   hookCalls, hooked, pc, tid, stale, ret, runs, inodeLog>>
    /\ UNCHANGED <<ioVars, utilVars>>

\* core.go:111-112: Run entered with ServeTest unset.
RunBegin(id) ==
    /\ Len(runs) < MaxRuns
    /\ runs' = Append(runs, NewRun(id))
    /\ UNCHANGED <<nextID, created, apps, proxyStarted, startLog, loadFailed,
                   hookCalls, hooked, pc, tid, stale, ret, stRet, inodeLog>>
    /\ UNCHANGED <<ioVars, utilVars>>

\* core.go:116-133: resolve the App or return ErrInternal; then make the
\* channel and start the forwarding goroutine.
RunGetApp(r) ==
    /\ r \in 1..Len(runs)
    /\ runs[r].cpc = "getApp"
    /\ IF getApp(runs[r].id)
         THEN runs' = [runs EXCEPT ![r].cpc = "app", ![r].gpc = "recv"]
         ELSE runs' = [runs EXCEPT ![r].cpc = "ret", ![r].err = "ErrInternal"]
    /\ UNCHANGED <<nextID, created, apps, proxyStarted, startLog, loadFailed,
                   hookCalls, hooked, pc, tid, stale, ret, stRet, inodeLog>>
    /\ UNCHANGED <<ioVars, utilVars>>

\* The App pushes its inode on the unbuffered channel (inside app.Run, the
\* callee of core.go:135) and the goroutine's receive at core.go:128 takes
\* it: one rendezvous.
AppPush(r, v) ==
    /\ r \in 1..Len(runs)
    /\ ~runs[r].pushed
    /\ runs[r].gpc = "recv"
    /\ runs' = [runs EXCEPT ![r].pushed = TRUE, ![r].inode = v,
                            ![r].gpc = "send"]
    /\ UNCHANGED <<nextID, created, apps, proxyStarted, startLog, loadFailed,
                   hookCalls, hooked, pc, tid, stale, ret, stRet, inodeLog>>
    /\ UNCHANGED <<ioVars, utilVars>>

\* The argument as a build passing a fresh variable would give it.
ForwardedDefault(run) == 0

\* core.go:128-129: inode := <-inodeChan; c.hook.SendInode(ctx, id, inode)
ForwardedInode(run) == run.inode

\* core.go:129-132: hook.SendInode(ctx, id, inode); its error is only logged.
GoSendInode(r) ==
    /\ r \in 1..Len(runs)
    /\ runs[r].gpc = "send"
    /\ inodeLog' = Append(inodeLog, <<r, runs[r].id, ForwardedInode(runs[r])>>)
    /\ runs' = [runs EXCEPT ![r].gpc = "close"]
    /\ UNCHANGED <<nextID, created, apps, proxyStarted, startLog, loadFailed,
                   hookCalls, hooked, pc, tid, stale, ret, stRet>>
    /\ UNCHANGED <<ioVars, utilVars>>

\* core.go:126: the deferred close(inodeChan); the goroutine retires.
GoClose(r) ==
    /\ r \in 1..Len(runs)
    /\ runs[r].gpc = "close"
    /\ runs' = [runs EXCEPT ![r].closed = TRUE, ![r].gpc = "done"]
    /\ UNCHANGED <<nextID, created, apps, proxyStarted, startLog, loadFailed,
                   hookCalls, hooked, pc, tid, stale, ret, stRet, inodeLog>>
    /\ UNCHANGED <<ioVars, utilVars>>

\* core.go:135: app.Run returns its AppError, which Run returns.
RunReturn(r, err) ==
    /\ r \in 1..Len(runs)
    /\ runs[r].cpc = "app"
    /\ runs' = [runs EXCEPT ![r].cpc = "ret", ![r].err = err]
    /\ UNCHANGED <<nextID, created, apps, proxyStarted, startLog, loadFailed,
                   hookCalls, hooked, pc, tid, stale, ret, stRet, inodeLog>>
    /\ UNCHANGED <<ioVars, utilVars>>

\* A Run call after cancellation, as a build receiving in a select with
\* ctx.Done() would leave it: a goroutine blocked at the receive gives up.
AfterCancelWakes(run) ==
    IF run.gpc = "recv" THEN [run EXCEPT !.gpc = "close"] ELSE run

\* core.go:128: the receive is a plain <-inodeChan, not a select with
\* ctx.Done(): cancellation leaves the goroutine where it is.
AfterCancel(run) == run

\* The context given to the Run calls is cancelled.
RunCancel ==
    /\ ~cancelled
    /\ cancelled' = TRUE
    /\ runs' = [r \in 1..Len(runs) |-> AfterCancel(runs[r])]
    /\ UNCHANGED <<nextID, created, apps, proxyStarted, startLog, loadFailed,
                   hookCalls, hooked, pc, tid, stale, ret, stRet, inodeLog>>
    /\ UNCHANGED <<nReads, rbPc, buffer, emptyReads, reads, sleeps, rbRet,
                   ptVars, utilVars>>

(* ------------------- proxy utilities: ReadBytes ------------------------ *)

\* part_000:80 const maxEmptyReads
maxEmptyReads == 5
\* part_000:88 the size of the read window, make([]byte, 1024)
Window == 1024

\* What one reader.Read can return (io.Reader): n bytes, 0 <= n <= len(buf),
\* with no error, with io.EOF, with a net.Error whose Timeout() is true, or
\* with any other error.
ReadSizes == {0, 5, Window}
ReadErrs == {"nil", "EOF", "Timeout", "Fatal"}
\* The results enumerated.  ReadBytes compares n with the window only when
\* the error is nil (part_000:108), so a full window delivered together
\* with an error is covered by the 5-byte read with that error.
ReadResults == {r \in ReadSizes \X ReadErrs : r[2] = "nil" \/ r[1] < Window}

\* The append as a build putting the newest bytes first would make it.
AppendReadFirst(buf, k, n) == IF n > 0 THEN <<<<k, n>>>> \o buf ELSE buf

\* part_000:91-94: bytes read are appended whatever the error.  The n bytes
\* of the k-th read served by the reader are the chunk <<k, n>>.
AppendRead(buf, k, n) == IF n > 0 THEN Append(buf, <<k, n>>) ELSE buf

\* The streak as a build that never resets it would keep it.
StreakKept(er, n) == er

\* part_000:91-94: the streak is reset by a read that delivered bytes.
StreakAfterRead(er, n) == IF n > 0 THEN 0 ELSE er

\* The retry ceiling as an off-by-one build would test it.
EofExhaustedLate(er) == er > maxEmptyReads

\* part_000:99: if emptyReads >= maxEmptyReads
EofExhausted(er) == er >= maxEmptyReads

\* The short-read test as a build comparing with <= would make it.
ShortReadOrFull(n) == n <= Window

\* part_000:108: if n < len(buf)
ShortRead(n) == n < Window

\* part_000:88-110: what ReadBytes does with the result (n, err) of a read:
\* the new accumulator and streak, and where it goes next ("ret" with the
\* error and the exit path, "sleep", or back to the loop head "select").
AfterRead(buf, er, k, n, err) ==
    LET b == AppendRead(buf, k, n)
        e == StreakAfterRead(er, n)
    IN  IF err # "nil"
          THEN IF err = "EOF"
                 THEN IF EofExhausted(e + 1)
                        THEN [buffer |-> b, emptyReads |-> e + 1, next |-> "ret",
                              err |-> err, via |-> "eof"]
                        ELSE [buffer |-> b, emptyReads |-> e + 1, next |-> "sleep",
                              err |-> "nil", via |-> "none"]
                 ELSE [buffer |-> b, emptyReads |-> e, next |-> "ret",
                       err |-> err, via |-> "err"]
          ELSE IF ShortRead(n)
                 THEN [buffer |-> b, emptyReads |-> e, next |-> "ret",
                       err |-> "nil", via |-> "short"]
                 ELSE [buffer |-> b, emptyReads |-> e, next |-> "select",
                       err |-> "nil", via |-> "none"]

NoRbRet == [buf |-> << >>, err |-> "nil", via |-> "none"]

\* part_000:78-81: ReadBytes is entered: empty accumulator, streak 0.
ReadBytesEnter ==
    /\ rbPc \in {"idle", "ret"}
    /\ rbPc' = "select"
    /\ buffer' = << >>
    /\ emptyReads' = 0
    /\ reads' = << >>
    /\ sleeps' = 0
    /\ rbRet' = NoRbRet

\* The cancellation exit as a build reporting ctx.Err() would make it.
CancelledReturnErr(buf) == [buf |-> buf, err |-> "Canceled", via |-> "cancel"]

\* part_000:84-85 and 123-124: case <-ctx.Done(): return buffer, nil
CancelledReturn(buf) == [buf |-> buf, err |-> "nil", via |-> "cancel"]

\* part_000:83-88: the loop head; a cancelled context ends the call with
\* (buffer, nil), otherwise a read is issued.
RB_Select ==
    /\ rbPc = "select"
    /\ IF cancelled
         THEN /\ rbPc' = "ret"
              /\ rbRet' = CancelledReturn(buffer)
         ELSE /\ rbPc' = "read"
              /\ rbRet' = rbRet
    /\ UNCHANGED <<cancelled, nReads, buffer, emptyReads, reads, sleeps>>
    /\ UNCHANGED <<ptVars, coreVars, utilVars>>

\* part_000:89-110: reader.Read returns (n, err) and ReadBytes acts on it.
RB_Read(n, err) ==
    /\ rbPc = "read"
    /\ nReads < MaxReads
    /\ LET a == AfterRead(buffer, emptyReads, nReads + 1, n, err) IN
        /\ buffer' = a.buffer
        /\ emptyReads' = a.emptyReads
        /\ rbPc' = a.next
        /\ sleeps' = IF a.next = "sleep" THEN sleeps + 1 ELSE sleeps
        /\ rbRet' = IF a.next = "ret"
                      THEN [buf |-> a.buffer, err |-> a.err, via |-> a.via]
                      ELSE rbRet
    /\ nReads' = nReads + 1
    /\ reads' = Append(reads, <<n, err>>)
    /\ UNCHANGED cancelled
    /\ UNCHANGED <<ptVars, coreVars, utilVars>>

\* part_000:102-103: the 100ms sleep ends; continue with the loop head.
RB_Sleep ==
    /\ rbPc = "sleep"
    /\ rbPc' = "select"
    /\ UNCHANGED <<cancelled, nReads, buffer, emptyReads, reads, sleeps, rbRet>>
    /\ UNCHANGED <<ptVars, coreVars, utilVars>>

(* ---------------- proxy utilities: ReadRequiredBytes ------------------- *)

\* The n bytes delivered by the k-th read served by the reader, in order.
Bytes(k, n) == [i \in 1..n |-> <<k, i>>]

\* The remaining target as a build that never shrinks it would keep it.
RemainingKept(nb, n) == nb

\* part_000:138: numBytes = numBytes - n
Remaining(nb, n) == nb - n

\* part_000:127-152: what ReadRequiredBytes does with the result (n, err)
\* of a read into a window of nb bytes: the new accumulator, remaining
\* target and streak, and where it goes next.  The test n == numBytes comes
\* first and returns nil whatever err is.
AfterRequiredRead(buf, nb, er, k, n, err) ==
    IF n = nb
      THEN [buffer |-> buf \o Bytes(k, n), numBytes |-> nb, emptyReads |-> er,
            next |-> "ret", err |-> "nil", via |-> "full"]
      ELSE LET b == IF n > 0 THEN buf \o Bytes(k, n) ELSE buf
               m == IF n > 0 THEN Remaining(nb, n) ELSE nb
               e == StreakAfterRead(er, n)
           IN  IF err # "nil"
                 THEN IF err = "EOF"
                        THEN IF EofExhausted(e + 1)
                               THEN [buffer |-> b, numBytes |-> m,
                                     emptyReads |-> e + 1, next |-> "ret",
                                     err |-> err, via |-> "eof"]
                               ELSE [buffer |-> b, numBytes |-> m,
                                     emptyReads |-> e + 1, next |-> "sleep",
                                     err |-> "nil", via |-> "none"]
                        ELSE [buffer |-> b, numBytes |-> m, emptyReads |-> e,
                              next |-> "ret", err |-> err, via |-> "err"]
                 ELSE [buffer |-> b, numBytes |-> m, emptyReads |-> e,
                       next |-> "select", err |-> "nil", via |-> "none"]

\* No ReadRequiredBytes call has been made, or its frame is gone.
RQ_Idle ==
    /\ rqPc' = "idle"
    /\ rqArg' = 0
    /\ numBytes' = 0
    /\ rqBuffer' = << >>
    /\ rqEmptyReads' = 0
    /\ rqRet' = NoRbRet

\* part_000:117-120: ReadRequiredBytes(ctx, reader, n) is entered.
ReadRequiredBytesEnter(n) ==
    /\ rqPc \in {"idle", "ret"}
    /\ rqPc' = "select"
    /\ rqArg' = n
    /\ numBytes' = n
    /\ rqBuffer' = << >>
    /\ rqEmptyReads' = 0
    /\ rqRet' = NoRbRet

\* part_000:122-127: the loop head; a cancelled context ends the call with
\* (buffer, nil), otherwise a read into a window of numBytes is issued.
RQ_Select ==
    /\ rqPc = "select"
    /\ IF cancelled
         THEN /\ rqPc' = "ret"
              /\ rqRet' = CancelledReturn(rqBuffer)
         ELSE /\ rqPc' = "read"
              /\ rqRet' = rqRet
    /\ UNCHANGED <<rqArg, numBytes, rqBuffer, rqEmptyReads>>
    /\ UNCHANGED <<idVars, ipVars, ioVars, coreVars>>

\* part_000:129-152: reader.Read returns (n, err), 0 <= n <= len(buf), and
\* ReadRequiredBytes acts on it.
RQ_Read(n, err) ==
    /\ rqPc = "read"
    /\ nReads < MaxReads
    /\ n \in 0..numBytes
    /\ LET a == AfterRequiredRead(rqBuffer, numBytes, rqEmptyReads,
                                  nReads + 1, n, err) IN
        /\ rqBuffer' = a.buffer
        /\ numBytes' = a.numBytes
        /\ rqEmptyReads' = a.emptyReads
        /\ rqPc' = a.next
        /\ rqRet' = IF a.next = "ret"
                      THEN [buf |-> a.buffer, err |-> a.err, via |-> a.via]
                      ELSE rqRet
    /\ nReads' = nReads + 1
    /\ UNCHANGED rqArg
    /\ UNCHANGED <<cancelled, rbPc, buffer, emptyReads, reads, sleeps, rbRet,
                   ptVars>>
    /\ UNCHANGED <<idVars, ipVars, coreVars>>

\* part_000:149-150: the 100ms sleep ends; continue with the loop head.
RQ_Sleep ==
    /\ rqPc = "sleep"
    /\ rqPc' = "select"
    /\ UNCHANGED <<rqArg, numBytes, rqBuffer, rqEmptyReads, rqRet>>
    /\ UNCHANGED <<idVars, ipVars, ioVars, coreVars>>

(* ------------- proxy utilities: ReadBuffConn and PassThrough ----------- *)

None == [kind |-> "none", buf |-> << >>, err |-> "nil"]
Msg(buf) == [kind |-> "buf", buf |-> buf, err |-> "nil"]
Err(err) == [kind |-> "err", buf |-> << >>, err |-> err]

\* The request chunks handed to PassThrough: chunk i is <<0, i>> (the
\* chunks read from the destination are <<k, n>> with k >= 1).
Request(n) == [i \in 1..n |-> <<0, i>>]

NoPtRet == [err |-> "nil", via |-> "none"]

\* part_000:182-188: what PassThrough leaves untouched while it has no
\* background reader.
NoReader == UNCHANGED <<nReads, rbPc, buffer, emptyReads, reads, sleeps, rbRet,
                        gPc, gOut>>

\* The deferred close as the function's comment describes it: only when
\* the function returns an error.
CloseOnError(err) == IF err # "nil" THEN destClosed + 1 ELSE destClosed

\* part_000:165-170: the deferred destConn.Close() runs on every return.
CloseOnReturn(err) == destClosed + 1

\* PassThrough returns (nil, err) by the exit path via; the deferred close
\* runs.
PT_Return(err, via) ==
    /\ ptPc' = "done"
    /\ ptRet' = [err |-> err, via |-> via]
    /\ destClosed' = CloseOnReturn(err)

\* part_000:159-163: PassThrough is entered; a nil destConn is refused
\* before the deferred close is installed.
PT_Enter(destNil, n) ==
    /\ ptPc = "idle"
    /\ req' = Request(n)
    /\ IF destNil
         THEN /\ ptPc' = "done"
              /\ ptRet' = [err |-> "nilDest", via |-> "nilDest"]
         ELSE /\ ptPc' = "write"
              /\ ptRet' = ptRet
    /\ UNCHANGED <<cancelled, destWrites, destClosed, ptIn, clientWrites>>
    /\ NoReader
    /\ UNCHANGED <<coreVars, utilVars>>

\* part_000:173-179: the next request chunk is written to the destination;
\* a failed write returns its error.
PT_WriteReq(ok) ==
    /\ ptPc = "write"
    /\ Len(destWrites) < Len(req)
    /\ destWrites' = Append(destWrites, [chunk |-> req[Len(destWrites) + 1], ok |-> ok])
    /\ IF ok
         THEN UNCHANGED <<ptPc, ptRet, destClosed>>
         ELSE PT_Return("WriteErr", "reqWriteFail")
    /\ UNCHANGED <<cancelled, req, ptIn, clientWrites>>
    /\ NoReader
    /\ UNCHANGED <<coreVars, utilVars>>

\* part_000:181-188: all chunks written; the channels are made and the
\* background ReadBuffConn is started.
PT_Spawn ==
    /\ ptPc = "write"
    /\ Len(destWrites) = Len(req)
    /\ ptPc' = "select"
    /\ gPc' = "select"
    /\ UNCHANGED <<cancelled, nReads, rbPc, buffer, emptyReads, reads, sleeps,
                   rbRet, gOut, req, destWrites, destClosed, ptIn, clientWrites,
                   ptRet>>
    /\ UNCHANGED <<coreVars, utilVars>>

\* part_000:36-43: ReadBuffConn's loop head; it returns when the context
\* is cancelled, otherwise it calls ReadBytes.
RC_Select ==
    /\ gPc = "select"
    /\ IF cancelled
         THEN /\ gPc' = "done"
              /\ UNCHANGED <<rbPc, buffer, emptyReads, reads, sleeps, rbRet>>
         ELSE /\ gPc' = "reading"
              /\ ReadBytesEnter
    /\ UNCHANGED <<cancelled, nReads, gOut, ptPc, req, destWrites, destClosed,
                   ptIn, clientWrites, ptRet>>
    /\ UNCHANGED <<coreVars, utilVars>>

\* part_000:43-49: ReadBytes has returned; the error goes to errChannel,
\* otherwise the buffer goes to bufferChannel.  Both sends block until
\* PassThrough receives.
RC_AfterRead ==
    /\ gPc = "reading"
    /\ rbPc = "ret"
    /\ IF rbRet.err # "nil"
         THEN /\ gPc' = "sendErr"
              /\ gOut' = Err(rbRet.err)
         ELSE /\ gPc' = "sendBuf"
              /\ gOut' = Msg(rbRet.buf)
    /\ UNCHANGED <<cancelled, nReads, rbPc, buffer, emptyReads, reads, sleeps,
                   rbRet, ptPc, req, destWrites, destClosed, ptIn, clientWrites,
                   ptRet>>
    /\ UNCHANGED <<coreVars, utilVars>>

\* A send of ReadBuffConn is received by PassThrough: after an error is
\* sent ReadBuffConn returns (part_000:46-47), after a buffer it loops
\* (part_000:49).
Received ==
    /\ gPc \in {"sendBuf", "sendErr"}
    /\ ptIn' = gOut
    /\ gOut' = None
    /\ gPc' = IF gPc = "sendErr" THEN "done" ELSE "select"
    /\ ptPc' = IF gPc = "sendErr" THEN "gotErr" ELSE "gotBuf"

\* part_000:190-208: PassThrough reaches its select.  Every case that is
\* ready may be taken; with none ready it blocks.
PT_Select ==
    /\ ptPc = "select"
    /\ \/ /\ Received
          /\ UNCHANGED cancelled
       \/ /\ cancelled
          /\ ptPc' = "gotCancel"
          /\ UNCHANGED <<cancelled, gPc, gOut, ptIn>>
       \/ /\ ~cancelled
          /\ gPc \notin {"sendBuf", "sendErr"}
          /\ ptPc' = "blocked"
          /\ UNCHANGED <<cancelled, gPc, gOut, ptIn>>
    /\ UNCHANGED <<nReads, rbPc, buffer, emptyReads, reads, sleeps, rbRet, req,
                   destWrites, destClosed, clientWrites, ptRet>>
    /\ UNCHANGED <<coreVars, utilVars>>

\* part_000:46,49 with part_000:190-200: ReadBuffConn's send finds
\* PassThrough blocked in its select and completes it.
RC_Send ==
    /\ ptPc = "blocked"
    /\ Received
    /\ UNCHANGED <<cancelled, nReads, rbPc, buffer, emptyReads, reads, sleeps,
                   rbRet, req, destWrites, destClosed, clientWrites, ptRet>>
    /\ UNCHANGED <<coreVars, utilVars>>

\* The response as a build forwarding the request back would write it.
ResponseFromRequest(in) == IF Len(req) > 0 THEN <<req[1]>> ELSE << >>

\* part_000:193: the buffer received is what is written to the client.
ResponseToWrite(in) == in.buf

\* part_000:191-199, 210: the response is written to the client; the call
\* returns the write's error, or (nil, nil).
PT_ClientWrite(ok) ==
    /\ ptPc = "gotBuf"
    /\ clientWrites' = Append(clientWrites, [buf |-> ResponseToWrite(ptIn), ok |-> ok])
    /\ IF ok
         THEN PT_Return("nil", "forwarded")
         ELSE PT_Return("WriteErr", "clientWriteFail")
    /\ UNCHANGED <<cancelled, req, destWrites, ptIn>>
    /\ NoReader
    /\ UNCHANGED <<coreVars, utilVars>>

\* Every error swallowed, as a build without the classification would.
ErrSwallowed(err) == "nil"

\* part_000:201-204: a net.Error whose Timeout() is true is benign, any
\* other error is returned as it is.
ErrReturned(err) == IF err = "Timeout" THEN "nil" ELSE err

\* part_000:200-204: the error received decides the result.
PT_GotErr ==
    /\ ptPc = "gotErr"
    /\ PT_Return(ErrReturned(ptIn.err), IF ptIn.err = "Timeout" THEN "timeout" ELSE "fatal")
    /\ UNCHANGED <<cancelled, req, destWrites, ptIn, clientWrites>>
    /\ NoReader
    /\ UNCHANGED <<coreVars, utilVars>>

\* The cancellation branch as a build reporting ctx.Err() would return.
CancelReportsErr == "Canceled"

\* part_000:206-207: case <-ctx.Done(): return nil, nil
CancelResult == "nil"

\* part_000:206-207: the cancellation branch.
PT_GotCancel ==
    /\ ptPc \in {"gotCancel", "wokeCancel"}
    /\ PT_Return(CancelResult, IF ptPc = "wokeCancel" THEN "cancelBlocked" ELSE "cancel")
    /\ UNCHANGED <<cancelled, req, destWrites, ptIn, clientWrites>>
    /\ NoReader
    /\ UNCHANGED <<coreVars, utilVars>>

\* The context is cancelled (ctx.Done() is closed).  A PassThrough blocked
\* in its select is completed by the close with the ctx.Done() case.
Cancel ==
    /\ ~cancelled
    /\ cancelled' = TRUE
    /\ ptPc' = IF ptPc = "blocked" THEN "wokeCancel" ELSE ptPc
    /\ UNCHANGED <<nReads, rbPc, buffer, emptyReads, reads, sleeps, rbRet, gPc,
                   gOut, req, destWrites, destClosed, ptIn, clientWrites, ptRet>>
    /\ UNCHANGED <<coreVars, utilVars>>

IOInit ==
    /\ cancelled = FALSE
    /\ nReads = 0
    /\ rbPc = "idle"
    /\ buffer = << >>
    /\ emptyReads = 0
    /\ reads = << >>
    /\ sleeps = 0
    /\ rbRet = NoRbRet
    /\ gPc = "none"
    /\ gOut = None
    /\ ptPc = "idle"
    /\ req = << >>
    /\ destWrites = << >>
    /\ destClosed = 0
    /\ ptIn = None
    /\ clientWrites = << >>
    /\ ptRet = NoPtRet

(* ------------------- proxy utilities: GetNextID ------------------------ *)

\* The add as a build returning the value without adding would make it.
AddNothing(c, d) == c

\* part_000:30 atomic.AddInt64(&idCounter, 1): adds and returns the new
\* value in one indivisible step (the counts here stay far from 2^63).
AddInt64(c, d) == c + d

RECURSIVE CallsReturned(_)
\* Number of GetNextID calls that have returned, over goroutines 1..t.
CallsReturned(t) == IF t = 0 THEN 0 ELSE Len(gotIDs[t]) + CallsReturned(t - 1)

\* Number of GetNextID calls in progress.
CallsInProgress == Cardinality({t \in Threads : idPc[t] = "called"})

\* part_000:29: a goroutine calls GetNextID.
GetNextIDCall(t) ==
    /\ idPc[t] = "idle"
    /\ CallsReturned(NumThreads) + CallsInProgress < MaxIDCalls
    /\ idPc' = [idPc EXCEPT ![t] = "called"]
    /\ UNCHANGED <<idCounter, gotIDs>>
    /\ UNCHANGED <<rqVars, ipVars, ioVars, coreVars>>

\* part_000:30: the atomic add, whose result the call returns.
GetNextIDAdd(t) ==
    /\ idPc[t] = "called"
    /\ idCounter' = AddInt64(idCounter, 1)
    /\ gotIDs' = [gotIDs EXCEPT ![t] = Append(@, idCounter')]
    /\ idPc' = [idPc EXCEPT ![t] = "idle"]
    /\ UNCHANGED <<rqVars, ipVars, ioVars, coreVars>>

(* ---------------- proxy utilities: the address codec ------------------- *)

\* A uint32 is carried as its two 16-bit halves <<high, low>>, its value
\* being high * 2^16 + low.
U32(hi, lo) == <<hi, lo>>

\* The halves sampled: the ends of the range, the byte boundaries, and the
\* halves of 10.0.0.1 and 192.168.x.x.
HalfSamples == {0, 1, 9, 10, 255, 256, 2560, 32767, 32768, 49320, 65535}
U32Samples == {U32(hi, lo) : hi \in HalfSamples, lo \in HalfSamples}

\* Text is a sequence of one-character strings.
DigitChars == <<"0", "1", "2", "3", "4", "5", "6", "7", "8", "9">>
Digit(d) == DigitChars[d + 1]
IsDigit(c) == \E d \in 0..9 : DigitChars[d + 1] = c
DigitVal(c) == CHOOSE d \in 0..9 : DigitChars[d + 1] = c

RECURSIVE Bin(_, _)
\* fmt's %0wb of x: the w low binary digits of x, most significant first.
Bin(x, w) == IF w = 0 THEN << >> ELSE Bin(x \div 2, w - 1) \o <<Digit(x % 2)>>

\* part_000:216 fmt.Sprintf("%032b", ip)
Bin32(v) == Bin(v[1], 16) \o Bin(v[2], 16)

RECURSIVE ParseUint(_, _)
\* strconv.ParseUint(s, base, 64) of a digit string.
ParseUint(s, base) ==
    IF s = << >> THEN 0
    ELSE ParseUint(SubSeq(s, 1, Len(s) - 1), base) * base + DigitVal(s[Len(s)])

\* The segment taken for byte i as a build counting from the low end
\* would take it.
SegmentLowFirst(bits, i) == SubSeq(bits, 8 * (4 - i) + 1, 8 * (4 - i) + 8)

\* part_000:219-222: ipBinary[0:8], [8:16], [16:24], [24:32] for i = 1..4
Segment(bits, i) == SubSeq(bits, 8 * (i - 1) + 1, 8 * (i - 1) + 8)

RECURSIVE Dec(_)
\* fmt's %d of a non-negative integer.
Dec(x) == IF x < 10 THEN <<Digit(x)>> ELSE Dec(x \div 10) \o <<Digit(x % 10)>>

\* fmt.Sprintf("%d.%d.%d.%d", a, b, c, d)
Dotted(a, b, c, d) ==
    Dec(a) \o <<".">> \o Dec(b) \o <<".">> \o Dec(c) \o <<".">> \o Dec(d)

\* part_000:214-226 ToIP4AddressStr
ToIP4AddressStr(v) ==
    LET ipBinary == Bin32(v)
        firstByte == ParseUint(Segment(ipBinary, 1), 2)
        secondByte == ParseUint(Segment(ipBinary, 2), 2)
        thirdByte == ParseUint(Segment(ipBinary, 3), 2)
        fourthByte == ParseUint(Segment(ipBinary, 4), 2)
    IN  Dotted(firstByte, secondByte, thirdByte, fourthByte)

RECURSIVE Fields(_)
\* The text split at its dots.
Fields(s) ==
    IF \A i \in 1..Len(s) : s[i] # "."
      THEN <<s>>
      ELSE LET k == CHOOSE i \in 1..Len(s) :
                        s[i] = "." /\ \A j \in 1..(i - 1) : s[j] # "."
           IN  <<SubSeq(s, 1, k - 1)>> \o Fields(SubSeq(s, k + 1, Len(s)))

\* A decimal field of an IPv4 literal: 1 to 3 digits, no leading zero
\* unless it is "0", value at most 255.
IsOctetField(f) ==
    /\ Len(f) \in 1..3
    /\ \A i \in 1..Len(f) : IsDigit(f[i])
    /\ (Len(f) > 1 => f[1] # "0")
    /\ ParseUint(f, 10) <= 255

\* The prefix of an IPv4-mapped 16-byte net.IP.
V4InV6Prefix == <<0, 0, 0, 0, 0, 0, 0, 0, 0, 0, 255, 255>>

\* net.ParseIP on a dotted-decimal literal: the 16-byte IPv4-mapped form,
\* or nil (the empty sequence) when the text is not an IPv4 literal.
ParseIP(s) ==
    LET fs == Fields(s) IN
    IF Len(fs) = 4 /\ \A i \in 1..4 : IsOctetField(fs[i])
      THEN V4InV6Prefix \o [i \in 1..4 |-> ParseUint(fs[i], 10)]
      ELSE << >>

\* net.IP.To4 as called at part_000:267: the 4-byte form of a 4-byte or
\* IPv4-mapped 16-byte address, nil otherwise.
To4(ip) ==
    IF Len(ip) = 4 THEN ip
    ELSE IF Len(ip) = 16 /\ SubSeq(ip, 1, 12) = V4InV6Prefix
           THEN SubSeq(ip, 13, 16)
           ELSE << >>

\* part_000:266-273 ToIPV4: the four bytes shifted to 24, 16, 8 and 0 and
\* or-ed; the shifted bytes do not overlap, so each half is a sum.
ToIPV4(ip) ==
    LET ipv4 == To4(ip) IN
    IF ipv4 = << >>
      THEN [val |-> U32(0, 0), ok |-> FALSE]
      ELSE [val |-> U32(ipv4[1] * 256 + ipv4[2], ipv4[3] * 256 + ipv4[4]),
            ok |-> TRUE]

NoText == << >>
NoIPResult == [val |-> U32(0, 0), ok |-> FALSE]

\* ToIP4AddressStr is applied to the value.
IP_ToStr ==
    /\ ipStr = NoText
    /\ ipStr' = ToIP4AddressStr(ipIn)
    /\ UNCHANGED <<ipIn, ipBack>>
    /\ UNCHANGED <<rqVars, idVars, ioVars, coreVars>>

\* The text is parsed into a net.IP and ToIPV4 is applied to it.
IP_Back ==
    /\ ipStr # NoText
    /\ ipBack = NoIPResult
    /\ ipBack' = ToIPV4(ParseIP(ipStr))
    /\ UNCHANGED <<ipIn, ipStr>>
    /\ UNCHANGED <<rqVars, idVars, ioVars, coreVars>>

\* The utilities at rest; the codec holds the value v.
UtilInit(v) ==
    /\ rqPc = "idle"
    /\ rqArg = 0
    /\ numBytes = 0
    /\ rqBuffer = << >>
    /\ rqEmptyReads = 0
    /\ rqRet = NoRbRet
    /\ idCounter = -1
    /\ idPc = [t \in Threads |-> "idle"]
    /\ gotIDs = [t \in Threads |-> << >>]
    /\ ipIn = v
    /\ ipStr = NoText
    /\ ipBack = NoIPResult

Init == CoreInit /\ IOInit /\ UtilInit(U32(0, 0))

\* part_000:78: a caller calls ReadBytes(ctx, reader).
ReadBytesCall ==
    /\ ReadBytesEnter
    /\ UNCHANGED <<cancelled, nReads, ptVars, coreVars, utilVars>>

\* ReadBytes is called on a reader, again and again; the context may be
\* cancelled at any time.
NextRead ==
    \/ ReadBytesCall
    \/ RB_Select
    \/ \E r \in ReadResults : RB_Read(r[1], r[2])
    \/ RB_Sleep
    \/ Cancel

SpecRead == Init /\ [][NextRead]_vars

\* One PassThrough call with its background reader.
NextPass ==
    \/ \E destNil \in BOOLEAN, n \in 0..MaxReq : PT_Enter(destNil, n)
    \/ \E ok \in BOOLEAN : PT_WriteReq(ok)
    \/ PT_Spawn
    \/ PT_Select
    \/ \E ok \in BOOLEAN : PT_ClientWrite(ok)
    \/ PT_GotErr
    \/ PT_GotCancel
    \/ RC_Select
    \/ RC_AfterRead
    \/ RC_Send
    \/ RB_Select
    \/ \E r \in ReadResults : RB_Read(r[1], r[2])
    \/ RB_Sleep
    \/ Cancel

SpecPass == Init /\ [][NextPass]_vars

\* No Hook call is in progress.
NoHookInProgress == \A u \in Threads : pc[u] = "idle"

\* Goroutines call Setup and Hook on the Core concurrently.
Next ==
    \/ \E ok \in BOOLEAN : Setup(ok)
    \/ \E id \in AppIDs : StoreApp(id)
    \/ \E t \in Threads : HookGetApp(t)
    \/ \E t \in Threads, ok \in BOOLEAN : HookLoad(t, ok)
    \/ \E t \in Threads : HookCheck(t)
    \/ \E t \in Threads, ok \in BOOLEAN : HookStart(t, ok)
    \/ \E t \in Threads : HookSet(t)
    \/ \E t \in Threads, id \in AppIDs : HookBegin(t, id)

Spec == Init /\ [][Next]_vars

\* The callers order their Hook calls: one begins only when none is in
\* progress (section 5: ordering is enforced by the caller).
HookBeginInTurn(t, id) ==
    /\ NoHookInProgress
    /\ HookBegin(t, id)

NextSeq ==
    \/ \E ok \in BOOLEAN : Setup(ok)
    \/ \E id \in AppIDs : StoreApp(id)
    \/ \E t \in Threads : HookGetApp(t)
    \/ \E t \in Threads, ok \in BOOLEAN : HookLoad(t, ok)
    \/ \E t \in Threads : HookCheck(t)
    \/ \E t \in Threads, ok \in BOOLEAN : HookStart(t, ok)
    \/ \E t \in Threads : HookSet(t)
    \/ \E t \in Threads, id \in AppIDs : HookBeginInTurn(t, id)

SpecSeq == Init /\ [][NextSeq]_vars

\* Setup and Run are called on the Core; Run calls overlap freely.
NextRun ==
    \/ \E ok \in BOOLEAN : Setup(ok)
    \/ \E id \in AppIDs : StoreApp(id)
    \/ \E id \in AppIDs : RunServeTest(id)
    \/ \E id \in AppIDs : RunBegin(id)
    \/ \E r \in 1..MaxRuns : RunGetApp(r)
    \/ \E r \in 1..MaxRuns, v \in Inodes : AppPush(r, v)
    \/ \E r \in 1..MaxRuns : GoSendInode(r)
    \/ \E r \in 1..MaxRuns : GoClose(r)
    \/ \E r \in 1..MaxRuns, err \in {"nil", "appErr"} : RunReturn(r, err)
    \/ RunCancel

SpecRun == Init /\ [][NextRun]_vars

\* A caller uses the reader for one call at a time, ReadBytes or
\* ReadRequiredBytes; beginning a call discards the frame of the other
\* function's returned call.
ReadBytesTurn ==
    /\ rqPc \in {"idle", "ret"}
    /\ ReadBytesEnter
    /\ RQ_Idle
    /\ UNCHANGED <<cancelled, nReads, ptVars, coreVars, idVars, ipVars>>

ReadRequiredBytesTurn(n) ==
    /\ rbPc \in {"idle", "ret"}
    /\ ReadRequiredBytesEnter(n)
    /\ rbPc' = "idle"
    /\ buffer' = << >>
    /\ emptyReads' = 0
    /\ reads' = << >>
    /\ sleeps' = 0
    /\ rbRet' = NoRbRet
    /\ UNCHANGED <<cancelled, nReads, ptVars, coreVars, idVars, ipVars>>

NextReq ==
    \/ ReadBytesTurn
    \/ \E n \in 0..MaxNeed : ReadRequiredBytesTurn(n)
    \/ RB_Select
    \/ \E r \in ReadResults : RB_Read(r[1], r[2])
    \/ RB_Sleep
    \/ RQ_Select
    \/ \E n \in 0..MaxNeed, err \in ReadErrs : RQ_Read(n, err)
    \/ RQ_Sleep
    \/ Cancel

SpecReq == Init /\ [][NextReq]_vars

\* Goroutines call GetNextID concurrently.
NextID ==
    \/ \E t \in Threads : GetNextIDCall(t)
    \/ \E t \in Threads : GetNextIDAdd(t)

SpecID == Init /\ [][NextID]_vars

\* The codec is applied to each sampled 32-bit value.
InitIP == CoreInit /\ IOInit /\ \E v \in U32Samples : UtilInit(v)

NextIP ==
    \/ IP_ToStr
    \/ IP_Back

SpecIP == InitIP /\ [][NextIP]_vars

(* ------------------------------ claims -------------------------------- *)

\* C1: for concurrent Hook calls for distinct registered Apps, Load and
\* StartProxy always succeeding, Proxy.StartProxy is invoked at most once
\* in total (every other Hook call returns without invoking it).
C1_SingleProxyStart ==
    ( /\ ~loadFailed
      /\ \A i \in 1..Len(startLog) : startLog[i]
      /\ hookCalls = Cardinality(hooked)
      /\ hooked \subseteq apps )
    => Len(startLog) <= 1

\* C2 as stated: over non-overlapping Hook calls, whatever Load and
\* StartProxy return, StartProxy is invoked at most once and proxyStarted
\* never reverts.
C2_Original ==
    [][ /\ Len(startLog') <= 1
        /\ proxyStarted => proxyStarted' ]_vars

\* C2 amended: over non-overlapping Hook calls, whatever Load and
\* StartProxy return, StartProxy is invoked only while proxyStarted is
\* false and no earlier invocation has succeeded (so it succeeds at most
\* once and is never invoked after a success), and proxyStarted never
\* reverts.
C2_StartOnceAfterSuccess ==
    [][ /\ proxyStarted => proxyStarted'
        /\ Len(startLog') > Len(startLog) =>
             /\ ~proxyStarted
             /\ \A i \in 1..Len(startLog) : ~startLog[i] ]_vars

\* C2 witness: a StartProxy that failed, a later one that succeeded, and
\* the gate up.
C2_Witness ==
    /\ Len(startLog) = 2
    /\ ~startLog[1]
    /\ startLog[2]
    /\ proxyStarted
    /\ \A t \in Threads : pc[t] = "idle"

\* C3: once Setup has returned (id, nil), the App bound to id is in the
\* Core's registry in every later state.
C3_RegisteredAfterSetup == created \subseteq apps

C5_SingleExchange ==
    /\ Len(clientWrites) <= 1
    /\ ptRet.via = "forwarded" =>
         /\ ptRet.err = "nil"
         /\ destWrites = [i \in 1..Len(req) |-> [chunk |-> req[i], ok |-> TRUE]]
         /\ ptIn.kind = "buf"
         /\ clientWrites = << [buf |-> ptIn.buf, ok |-> TRUE] >>

\* C5 witness: two request chunks written, a response of two chunks
\* forwarded.
C5_Witness ==
    /\ ptRet.via = "forwarded"
    /\ Len(req) = 2
    /\ Len(ptIn.buf) = 2

\* C6: when PassThrough receives an error from the background reader it
\* writes nothing to the client and returns (nil, nil) for a network
\* timeout, (nil, that error) for any other error.
C6_ErrorDelivered ==
    ptIn.kind = "err" =>
        /\ clientWrites = << >>
        /\ ptPc = "done" =>
             ptRet.err = (IF ptIn.err = "Timeout" THEN "nil" ELSE ptIn.err)

\* C6 witness: the reader's end-of-stream error has been returned.
C6_Witness ==
    /\ ptPc = "done"
    /\ ptIn = Err("EOF")
    /\ ptRet.err = "EOF"

\* C7: a cancellation that finds PassThrough blocked in its select, nothing
\* yet received, makes it take the ctx.Done() case; and a call that has
\* taken the ctx.Done() case returns (nil, nil) next, having received
\* nothing and written nothing to the client.
C7_CancelWhileWaiting ==
    [][ /\ (ptPc = "blocked" /\ ~cancelled /\ cancelled') =>
              (ptPc' = "wokeCancel" /\ ptIn' = None)
        /\ (ptPc \in {"wokeCancel", "gotCancel"} /\ ptPc' # ptPc) =>
              /\ ptPc' = "done"
              /\ ptRet'.err = "nil"
              /\ ptIn' = None
              /\ clientWrites' = << >> ]_vars

\* C7 witness: the call has returned by the cancellation that found it
\* blocked, while the reader was inside a read.
C7_Witness ==
    /\ ptPc = "done"
    /\ ptRet.via = "cancelBlocked"
    /\ rbPc = "read"

\* C8: once the context is cancelled, nothing more is received from
\* ReadBuffConn's channels.
C8_NoPublishAfterCancel == [][ cancelled => ptIn' = ptIn ]_vars

\* Every read of the call so far returned zero bytes and end-of-stream.
AllEmptyEOF(rs) == \A i \in 1..Len(rs) : rs[i] = <<0, "EOF">>

\* C9: the streak counter stays within 0..5; with a reader returning
\* (0, EOF) on every read, each read before the 5th is followed by one
\* delay, and a call that ends otherwise than by cancellation has issued
\* exactly 5 reads and taken exactly 4 delays and returns (empty, EOF).
C9_RetryExhaustion ==
    /\ emptyReads \in 0..5
    /\ AllEmptyEOF(reads) =>
         /\ Len(reads) <= 5
         /\ rbPc = "read" => sleeps = Len(reads)
         /\ (rbPc = "ret" /\ rbRet.via # "cancel") =>
              /\ Len(reads) = 5
              /\ sleeps = 4
              /\ rbRet.buf = << >>
              /\ rbRet.err = "EOF"

\* C9 witness: the call has returned end-of-stream after 5 empty reads.
C9_Witness ==
    /\ rbPc = "ret"
    /\ rbRet.via = "eof"
    /\ Len(reads) = 5
    /\ AllEmptyEOF(reads)

\* A read of fewer than Window bytes with no error.
IsShortRead(r) == r[2] = "nil" /\ r[1] < Window

\* A short read is the call's last read, and the call has returned
\* (accumulated, nil) with no delay after it.
ShortReadEndsCall ==
    \A i \in 1..Len(reads) :
        IsShortRead(reads[i]) =>
            /\ i = Len(reads)
            /\ rbPc = "ret"
            /\ rbRet = [buf |-> buffer, err |-> "nil", via |-> "short"]

\* C10 as stated: a short read with no error ends the call at once with
\* (accumulated, nil), and the call never returns after a full-window read
\* with no error: another read follows.
C10_Original ==
    /\ ShortReadEndsCall
    /\ (Len(reads) > 0 /\ reads[Len(reads)] = <<Window, "nil">>) => rbPc # "ret"

\* C10 amended: a short read with no error ends the call at once with
\* (accumulated, nil); after a full-window read with no error the call
\* returns only if it observes cancellation at the next loop head,
\* otherwise another read follows.
C10_ShortReadTermination ==
    /\ ShortReadEndsCall
    /\ (Len(reads) > 0 /\ reads[Len(reads)] = <<Window, "nil">>) =>
          (rbPc # "ret" \/ rbRet.via = "cancel")

\* C10 witness: a full-window read followed by a 5-byte read that ended
\* the call.
C10_Witness ==
    /\ rbPc = "ret"
    /\ reads = << <<Window, "nil">>, <<5, "nil">> >>
    /\ Len(rbRet.buf) = 2

\* C11: when ReadBytes or ReadRequiredBytes is at the head of its loop with
\* the context cancelled, its next step is the return of (bytes accumulated
\* so far, nil), and no read is issued by that step.
C11_CancelAtLoopHead ==
    [][ /\ (rbPc = "select" /\ cancelled /\ rbPc' # rbPc) =>
              /\ rbPc' = "ret"
              /\ rbRet'.buf = buffer
              /\ rbRet'.err = "nil"
              /\ nReads' = nReads
        /\ (rqPc = "select" /\ cancelled /\ rqPc' # rqPc) =>
              /\ rqPc' = "ret"
              /\ rqRet'.buf = rqBuffer
              /\ rqRet'.err = "nil"
              /\ nReads' = nReads ]_vars

\* C11 witness: a ReadRequiredBytes call for 3 bytes has returned by the
\* cancellation exit with the 2 bytes it had accumulated.
C11_Witness ==
    /\ rqPc = "ret"
    /\ rqRet.via = "cancel"
    /\ rqArg = 3
    /\ Len(rqRet.buf) = 2
    /\ rqRet.err = "nil"

\* C12: in a ReadRequiredBytes(reader, n) call the accumulated length plus
\* the remaining target is n at every iteration; the call never returns
\* more than n bytes; and a return with a nil error other than by the
\* cancellation exit carries exactly n bytes.
C12_RequiredBytesAccounting ==
    /\ rqPc \in {"select", "read", "sleep"} =>
         Len(rqBuffer) + numBytes = rqArg
    /\ rqPc = "ret" =>
         /\ Len(rqRet.buf) <= rqArg
         /\ (rqRet.via # "cancel" /\ rqRet.err = "nil") =>
              Len(rqRet.buf) = rqArg

\* C12 witness: a call for 3 bytes has returned (3 bytes, nil), the bytes
\* coming from more than one read.
C12_Witness ==
    /\ rqPc = "ret"
    /\ rqRet.via = "full"
    /\ rqArg = 3
    /\ Len(rqRet.buf) = 3
    /\ rqRet.buf[1][1] # rqRet.buf[3][1]

\* The Hook.SendInode invocations made for Run call r.
SendInodeCalls(r) == {i \in 1..Len(inodeLog) : inodeLog[i][1] = r}

\* C13: for every Run call that resolved its App, Hook.SendInode is invoked
\* at most once, only after the App has pushed a value and with the call's
\* id and exactly that value; the channel is closed only after that
\* SendInode invocation has returned, and the goroutine retires on closing.
C13_ForwardOnce ==
    \A r \in 1..Len(runs) :
        /\ Cardinality(SendInodeCalls(r)) <= 1
        /\ \A i \in SendInodeCalls(r) :
              /\ runs[r].pushed
              /\ inodeLog[i] = <<r, runs[r].id, runs[r].inode>>
        /\ runs[r].closed => (SendInodeCalls(r) # {} /\ runs[r].gpc = "done")
        /\ runs[r].gpc = "done" => runs[r].closed

\* C13 witness: the App pushed inode 2, SendInode was invoked with it, the
\* channel is closed and the goroutine has retired.
C13_Witness ==
    /\ Len(runs) >= 1
    /\ runs[1].pushed
    /\ runs[1].inode = 2
    /\ inodeLog = << <<1, runs[1].id, 2>> >>
    /\ runs[1].closed
    /\ runs[1].gpc = "done"

\* C14: a step in which Run with ServeTest set returns leaves the result
\* the empty AppError and changes nothing else: the registry, the Run calls
\* (no lookup, no App.Run, no channel, no goroutine) and the SendInode
\* invocations are as before, whether the id is registered or not.
C14_ServeTestNoEffect ==
    [][ stRet' # stRet =>
          /\ stRet' = Ret("Run", "nil")
          /\ UNCHANGED <<nextID, created, apps, proxyStarted, startLog,
                         loadFailed, hookCalls, hooked, pc, tid, stale, ret,
                         runs, inodeLog, cancelled>> ]_vars

\* C14 witness: Run with ServeTest set has returned the empty AppError with
\* no App registered, no Run call started and no SendInode invocation.
C14_Witness ==
    /\ stRet = Ret("Run", "nil")
    /\ apps = {}
    /\ runs = << >>
    /\ inodeLog = << >>

\* The values returned by all GetNextID calls so far.
ReturnedIDs == UNION {{gotIDs[t][i] : i \in 1..Len(gotIDs[t])} : t \in Threads}

\* C15: when k GetNextID calls have returned, in any interleaving, the
\* values returned are pairwise distinct and are exactly 0..k-1, and the
\* values returned to one caller are strictly increasing.
C15_DenseUniqueIDs ==
    LET k == CallsReturned(NumThreads) IN
    /\ ReturnedIDs = 0..(k - 1)
    /\ Cardinality(ReturnedIDs) = k
    /\ \A t \in Threads : \A i \in 1..(Len(gotIDs[t]) - 1) :
          gotIDs[t][i] < gotIDs[t][i + 1]

\* C15 witness: two callers have interleaved and six calls have returned,
\* neither caller holding a block of consecutive values only.
C15_Witness ==
    /\ CallsReturned(NumThreads) = 6
    /\ gotIDs[1] = <<0, 2, 5>>
    /\ gotIDs[2] = <<1, 3, 4>>

\* The four bytes of a 32-bit value, most significant first.
BytesOf(v) == <<v[1] \div 256, v[1] % 256, v[2] \div 256, v[2] % 256>>

\* C16: the text ToIP4AddressStr returns for v is the dotted decimal of
\* v's four bytes, most significant first; ToIPV4 of the address that text
\* denotes is (v, true); 0x0A000001 gives "10.0.0.1" and "10.0.0.1" gives
\* 0x0A000001.
C16_AddressRoundTrip ==
    /\ ipStr # NoText =>
         /\ LET b == BytesOf(ipIn) IN ipStr = Dotted(b[1], b[2], b[3], b[4])
         /\ ipIn = U32(2560, 1) =>
              ipStr = <<"1", "0", ".", "0", ".", "0", ".", "1">>
    /\ ipBack # NoIPResult => ipBack = [val |-> ipIn, ok |-> TRUE]
    /\ ToIPV4(ParseIP(<<"1", "0", ".", "0", ".", "0", ".", "1">>))
         = [val |-> U32(2560, 1), ok |-> TRUE]

\* C16 witness: 0xC0A8FFFF (192.168.255.255) has been converted to text
\* and back.
C16_Witness ==
    /\ ipIn = U32(49320, 65535)
    /\ ipStr = <<"1", "9", "2", ".", "1", "6", "8", ".",
                 "2", "5", "5", ".", "2", "5", "5">>
    /\ ipBack = [val |-> ipIn, ok |-> TRUE]

\* C20: while the App of a Run call has not pushed an inode, the call's
\* goroutine, once started, stays at the receive whatever else happens
\* (cancellation, the return of Run), Hook.SendInode has not been invoked
\* for the call and its channel is not closed.
C20_ForwarderLeaks ==
    [][ \A r \in 1..Len(runs') :
          ~runs'[r].pushed =>
             /\ runs'[r].gpc \in {"none", "recv"}
             /\ ~runs'[r].closed
             /\ \A i \in 1..Len(inodeLog') : inodeLog'[i][1] # r
             /\ (r <= Len(runs) /\ runs[r].gpc = "recv") =>
                   runs'[r].gpc = "recv" ]_vars

\* C20 witness: the context is cancelled and Run has returned, the App
\* never pushed, and the goroutine is still at the receive with the
\* channel open.
C20_Witness ==
    /\ Len(runs) >= 1
    /\ cancelled
    /\ runs[1].cpc = "ret"
    /\ runs[1].err = "nil"
    /\ ~runs[1].pushed
    /\ runs[1].gpc = "recv"
    /\ ~runs[1].closed
    /\ inodeLog = << >>

\* The last m reads of the call each reported end-of-stream.
LastAllEOF(m) ==
    /\ Len(reads) >= m
    /\ \A i \in (Len(reads) - m + 1)..Len(reads) : reads[i][2] = "EOF"

\* The last m reads of the call each delivered no byte.
LastAllEmpty(m) ==
    /\ Len(reads) >= m
    /\ \A i \in (Len(reads) - m + 1)..Len(reads) : reads[i][1] = 0

\* C17 as stated: with the context not cancelled, once the last 5 reads of
\* a ReadBytes call have each reported end-of-stream, whether or not they
\* delivered bytes, the call has returned (accumulated, end-of-stream).
C17_Original ==
    (rbPc # "idle" /\ ~cancelled /\ LastAllEOF(maxEmptyReads)) =>
        (rbPc = "ret" /\ rbRet.err = "EOF")

\* C17 amended: once the last 5 reads of a ReadBytes call have each
\* reported end-of-stream and the last 4 of them delivered no byte, the
\* call has returned (accumulated, end-of-stream); and the call returns
\* end-of-stream only then: a read that delivers bytes restarts the count,
\* itself counting as the first if it reported end-of-stream.
C17_EmptyEofExhaustion ==
    /\ (rbPc # "idle" /\ LastAllEOF(maxEmptyReads)
          /\ LastAllEmpty(maxEmptyReads - 1)) =>
         (rbPc = "ret" /\ rbRet.err = "EOF" /\ rbRet.buf = buffer)
    /\ (rbPc = "ret" /\ rbRet.err = "EOF") =>
         (LastAllEOF(maxEmptyReads) /\ LastAllEmpty(maxEmptyReads - 1))

\* C17 witness: a read delivering 5 bytes with end-of-stream, then 4 empty
\* end-of-stream reads: the call has returned those bytes with
\* end-of-stream.
C17_Witness ==
    /\ rbPc = "ret"
    /\ rbRet.err = "EOF"
    /\ reads = << <<5, "EOF">>, <<0, "EOF">>, <<0, "EOF">>, <<0, "EOF">>,
                  <<0, "EOF">> >>
    /\ Len(rbRet.buf) = 1

\* A read that delivered bytes.
DeliveredBytes(c) == c[2] > 0

\* The chunks delivered by the reads of the call in progress, in read
\* order: its i-th read is read nReads - Len(reads) + i of the reader.
ChunksRead ==
    SelectSeq([i \in 1..Len(reads) |->
                  <<nReads - Len(reads) + i, reads[i][1]>>], DeliveredBytes)

\* C18: the accumulator of a ReadBytes call is at all times the
\* concatenation, in read order, of the bytes delivered by the reads the
\* call has issued, and on every exit path the bytes returned are that
\* concatenation.
C18_ReturnsAllBytesRead ==
    /\ rbPc # "idle" => buffer = ChunksRead
    /\ rbPc = "ret" => rbRet.buf = ChunksRead

\* C18 witness: a full window, then 5 bytes delivered together with an
\* error other than end-of-stream; both chunks are returned with the error.
C18_Witness ==
    /\ rbPc = "ret"
    /\ rbRet.err = "Fatal"
    /\ Len(reads) = 2
    /\ reads[1] = <<Window, "nil">>
    /\ reads[2] = <<5, "Fatal">>
    /\ Len(rbRet.buf) = 2
    /\ rbRet.buf[1][2] = Window

\* C19: once PassThrough has returned, its background reader is never
\* blocked at a send on one of the channels PassThrough has stopped
\* receiving from.
C19_ReaderNotStranded ==
    ~(ptPc = "done" /\ gPc \in {"sendBuf", "sendErr"})
====
